---------------------------- MODULE Spec2Model ----------------------------
(***************************************************************************)
(* A model of the media converter: the image re-encoder (convertImage),    *)
(* the single-image paginator (convertImageToPDF) and the App component    *)
(* that classifies files and drives conversions.                           *)
(*                                                                         *)
(* JavaScript numbers are IEEE-754 binary64 values.  The placement         *)
(* geometry of the paginator is computed on them, so the model carries     *)
(* binary64 arithmetic with round-to-nearest-even: a finite number is a    *)
(* record [s, m, e] standing for s * m * 2^e, with s in {-1, 0, 1} and m    *)
(* a natural number of exactly Precision bits when s # 0.                  *)
(***************************************************************************)
EXTENDS Integers, Sequences, FiniteSets, TLC

(***************************************************************************)
(* Natural numbers of arbitrary size: little-endian sequences of limbs in  *)
(* base 2^15 without high zero limbs (zero is the empty sequence).  The    *)
(* small operands (n below) are less than 2^15.                            *)
(***************************************************************************)
LimbBits == 15
Limb == 2 ^ LimbBits

RECURSIVE NatToBig(_)
NatToBig(n) ==
    IF n = 0 THEN <<>> ELSE <<n % Limb>> \o NatToBig(n \div Limb)

RECURSIVE Trim(_)
Trim(b) ==
    IF Len(b) = 0 THEN b
    ELSE IF b[Len(b)] = 0 THEN Trim(SubSeq(b, 1, Len(b) - 1)) ELSE b

Zeros(k) == [i \in 1..k |-> 0]

LimbAt(b, i) == IF i >= 1 /\ i <= Len(b) THEN b[i] ELSE 0

\* the number of bits of a limb x > 0
SmallBitLen(x) == CHOOSE k \in 1..LimbBits : 2 ^ (k - 1) <= x /\ x < 2 ^ k

\* the number of bits of b
BitLen(b) ==
    IF Len(b) = 0 THEN 0 ELSE LimbBits * (Len(b) - 1) + SmallBitLen(b[Len(b)])

\* -1, 0, 1 as a < b, a = b, a > b
RECURSIVE CmpFrom(_, _, _)
CmpFrom(a, b, i) ==
    IF i = 0 THEN 0
    ELSE IF a[i] # b[i] THEN (IF a[i] < b[i] THEN -1 ELSE 1)
    ELSE CmpFrom(a, b, i - 1)

BigCmp(a, b) ==
    IF Len(a) # Len(b) THEN (IF Len(a) < Len(b) THEN -1 ELSE 1)
    ELSE CmpFrom(a, b, Len(a))

RECURSIVE AddFrom(_, _, _, _)
AddFrom(a, b, i, carry) ==
    IF i > Len(a) /\ i > Len(b) THEN NatToBig(carry)
    ELSE LET t == LimbAt(a, i) + LimbAt(b, i) + carry
         IN  <<t % Limb>> \o AddFrom(a, b, i + 1, t \div Limb)

BigAdd(a, b) == Trim(AddFrom(a, b, 1, 0))

\* a - b for a >= b
RECURSIVE SubFrom(_, _, _, _)
SubFrom(a, b, i, borrow) ==
    IF i > Len(a) THEN <<>>
    ELSE LET t == a[i] - LimbAt(b, i) - borrow
         IN  <<t % Limb>> \o SubFrom(a, b, i + 1, IF t < 0 THEN 1 ELSE 0)

BigSub(a, b) == Trim(SubFrom(a, b, 1, 0))

\* b * n for a small natural n
RECURSIVE MulFrom(_, _, _, _)
MulFrom(b, n, i, carry) ==
    IF i > Len(b) THEN NatToBig(carry)
    ELSE LET t == b[i] * n + carry
         IN  <<t % Limb>> \o MulFrom(b, n, i + 1, t \div Limb)

BigMulSmall(b, n) == Trim(MulFrom(b, n, 1, 0))

\* [q |-> floor(b / n), r |-> b mod n] for a small positive n
RECURSIVE DivFrom(_, _, _, _, _)
DivFrom(b, n, i, rem, q) ==
    IF i = 0 THEN [q |-> Trim(q), r |-> rem]
    ELSE LET t == rem * Limb + b[i]
         IN  DivFrom(b, n, i - 1, t % n, <<t \div n>> \o q)

BigDivSmall(b, n) == DivFrom(b, n, Len(b), 0, <<>>)

\* b * 2^k
Shl(b, k) ==
    IF Len(b) = 0 THEN b
    ELSE Zeros(k \div LimbBits) \o BigMulSmall(b, 2 ^ (k % LimbBits))

\* floor(b / 2^k)
Shr(b, k) ==
    IF k \div LimbBits >= Len(b) THEN <<>>
    ELSE BigDivSmall(SubSeq(b, (k \div LimbBits) + 1, Len(b)), 2 ^ (k % LimbBits)).q

\* b is odd
IsOdd(b) == LimbAt(b, 1) % 2 = 1

(***************************************************************************)
(* Exact dyadic values [s, m, e] = s * m * 2^e (m of any length), and the  *)
(* binary64 numbers among them.  The exponent range of binary64 is not     *)
(* modelled: the values met here stay far inside it.                       *)
(***************************************************************************)
Precision == 53

ExZero == [s |-> 0, m |-> <<>>, e |-> 0]

Ex(sgn, mag, ex) == IF Len(mag) = 0 THEN ExZero ELSE [s |-> sgn, m |-> mag, e |-> ex]

ExFromInt(n) ==
    IF n = 0 THEN ExZero
    ELSE IF n > 0 THEN [s |-> 1, m |-> NatToBig(n), e |-> 0]
    ELSE [s |-> -1, m |-> NatToBig(-n), e |-> 0]

ExNeg(x) == [x EXCEPT !.s = -@]

ExAbs(x) == [x EXCEPT !.s = IF @ = 0 THEN 0 ELSE 1]

\* x * 2^k
ExScale(x, k) == IF x.s = 0 THEN x ELSE [x EXCEPT !.e = @ + k]

\* x * n for an integer n >= 0
ExMulInt(n, x) == IF n = 0 \/ x.s = 0 THEN ExZero ELSE Ex(x.s, BigMulSmall(x.m, n), x.e)

MinExp(x, y) == IF x.e < y.e THEN x.e ELSE y.e

\* the magnitude of x in units of 2^ex, for ex <= x.e
MagAt(x, ex) == IF x.s = 0 THEN <<>> ELSE Shl(x.m, x.e - ex)

ExAdd(x, y) ==
    IF x.s = 0 THEN y
    ELSE IF y.s = 0 THEN x
    ELSE LET ex == MinExp(x, y)
             a  == MagAt(x, ex)
             b  == MagAt(y, ex)
             c  == BigCmp(a, b)
         IN  IF x.s = y.s THEN Ex(x.s, BigAdd(a, b), ex)
             ELSE IF c = 0 THEN ExZero
             ELSE IF c > 0 THEN Ex(x.s, BigSub(a, b), ex)
             ELSE Ex(y.s, BigSub(b, a), ex)

ExSub(x, y) == ExAdd(x, ExNeg(y))

ExSign(x) == x.s

\* -1, 0, 1 as x < y, x = y, x > y
ExCmp(x, y) == ExSign(ExSub(x, y))

ExLess(x, y) == ExCmp(x, y) < 0
ExLeq(x, y) == ExCmp(x, y) <= 0
ExEq(x, y) == ExCmp(x, y) = 0

\* Round-to-nearest, ties-to-even, of the magnitude n * 2^ex (n # 0) to
\* Precision bits; sticky says that a further nonzero fraction below the
\* last bit of n was cut off.
RoundMag(sgn, n, ex, sticky) ==
    LET L == BitLen(n)
    IN  IF L <= Precision
        THEN [s |-> sgn, m |-> Shl(n, Precision - L), e |-> ex - (Precision - L)]
        ELSE LET sh   == L - Precision
                 q    == Shr(n, sh)
                 c    == BigCmp(BigSub(n, Shl(q, sh)), Shl(<<1>>, sh - 1))
                 up   == c > 0 \/ (c = 0 /\ (sticky \/ IsOdd(q)))
                 r    == IF up THEN BigAdd(q, <<1>>) ELSE q
             IN  IF BitLen(r) > Precision
                 THEN [s |-> sgn, m |-> Shr(r, 1), e |-> ex + sh + 1]
                 ELSE [s |-> sgn, m |-> r, e |-> ex + sh]

Round(x) == IF x.s = 0 THEN ExZero ELSE RoundMag(x.s, Trim(x.m), x.e, FALSE)

IsFloat(x) == x.s = 0 \/ BitLen(x.m) = Precision

\* Number(n) for an integer n
FromInt(n) == Round(ExFromInt(n))

\* a * n in binary64, n an integer >= 0
FMulInt(n, a) == Round(ExMulInt(n, a))

\* a - b in binary64
FSub(a, b) == Round(ExSub(a, b))

\* a / 2 in binary64 (exact)
FHalf(a) == ExScale(a, -1)

\* a / n in binary64, n a positive integer: the quotient is taken to
\* Precision + 2 bits or more and the remainder is the sticky bit.
FDivInt(a, n) ==
    IF a.s = 0 THEN ExZero
    ELSE LET g == SmallBitLen(n) + 2
             d == BigDivSmall(Shl(a.m, g), n)
         IN  RoundMag(a.s, d.q, a.e - g, d.r # 0)

\* a < b on binary64 values
FLess(a, b) == ExLess(a, b)

\* one unit in the last place of the binary64 value a
Ulp(a) == [s |-> 1, m |-> <<1>>, e |-> a.e]

\* the positive binary64 value with the given significand (as limbs) and
\* binary exponent ex: significand * 2^(ex - (Precision - 1))
Binary64(significand, ex) ==
    [s |-> 1, m |-> significand, e |-> ex - (Precision - 1)]

(***************************************************************************)
(* convertImageToPDF: the page of `new jsPDF()` (A4, portrait, in          *)
(* millimetres: 595.28pt x 841.89pt divided by 72/25.4) and the placement  *)
(* rectangle computed from the decoded image's width and height.           *)
(***************************************************************************)
\* 210.0015555555555 = 0x1.a400cbe3c879ep+7; the significand
\* 0x1a400cbe3c879e is 1950 + 31865 * 2^15 + 50 * 2^30 + 210 * 2^45
A4Width == Binary64(<<1950, 31865, 50, 210>>, 7)

\* 297.0000833333333 = 0x1.2900057619f0fp+8; the significand
\* 0x12900057619f0f is 7951 + 11971 * 2^15 + 16385 * 2^30 + 148 * 2^45
A4Height == Binary64(<<7951, 11971, 16385, 148>>, 8)

PageSize == [width |-> A4Width, height |-> A4Height]

\* cover-fit: the larger of the two quotients
RatioCoverFit(widthRatio, heightRatio) ==
    IF FLess(widthRatio, heightRatio) THEN heightRatio ELSE widthRatio

\* a ratio that collapsed to zero
RatioCollapsed(widthRatio, heightRatio) == ExZero

\* const ratio = widthRatio < heightRatio ? widthRatio : heightRatio
Ratio(widthRatio, heightRatio) ==
    IF FLess(widthRatio, heightRatio) THEN widthRatio ELSE heightRatio

\* the whole free extent taken as the offset (the division by 2 left out)
CentreNotHalved(pageExtent, finalExtent) == FSub(pageExtent, finalExtent)

\* const x = (pageWidth - finalWidth) / 2
Centre(pageExtent, finalExtent) == FHalf(FSub(pageExtent, finalExtent))

\* each axis scaled by its own quotient (the image stretched over the page)
PlacementStretched(imgWidth, imgHeight, pageWidth, pageHeight) ==
    LET widthRatio  == FDivInt(pageWidth, imgWidth)
        heightRatio == FDivInt(pageHeight, imgHeight)
        ratio       == Ratio(widthRatio, heightRatio)
        finalWidth  == FMulInt(imgWidth, widthRatio)
        finalHeight == FMulInt(imgHeight, heightRatio)
    IN  [widthRatio  |-> widthRatio,
         heightRatio |-> heightRatio,
         ratio       |-> ratio,
         finalWidth  |-> finalWidth,
         finalHeight |-> finalHeight,
         x           |-> Centre(pageWidth, finalWidth),
         y           |-> Centre(pageHeight, finalHeight)]

\* the placement rectangle of convertImageToPDF
Placement(imgWidth, imgHeight, pageWidth, pageHeight) ==
    LET widthRatio  == FDivInt(pageWidth, imgWidth)
        heightRatio == FDivInt(pageHeight, imgHeight)
        ratio       == Ratio(widthRatio, heightRatio)
        finalWidth  == FMulInt(imgWidth, ratio)
        finalHeight == FMulInt(imgHeight, ratio)
    IN  [widthRatio  |-> widthRatio,
         heightRatio |-> heightRatio,
         ratio       |-> ratio,
         finalWidth  |-> finalWidth,
         finalHeight |-> finalHeight,
         x           |-> Centre(pageWidth, finalWidth),
         y           |-> Centre(pageHeight, finalHeight)]

(***************************************************************************)
(* Rasters.  A decoded image or a canvas bitmap is a width, a height and a *)
(* pixel for every column and row; a pixel is an RGB colour and an alpha,  *)
(* each 0..255, the colour not premultiplied.                              *)
(***************************************************************************)
White == <<255, 255, 255>>
Black == <<0, 0, 0>>
Red == <<255, 0, 0>>

Pixel(c, a) == [c |-> c, a |-> a]

TransparentBlack == Pixel(Black, 0)
OpaqueWhite == Pixel(White, 255)

Raster(width, height, data) ==
    [kind |-> "raster", width |-> width, height |-> height, data |-> data]

\* bytes that do not decode as an image
Garbage == [kind |-> "garbage"]

Grid(width, height) == (1..width) \X (1..height)

\* n / d rounded to the nearest integer
DivRound(n, d) == (2 * n + d) \div (2 * d)

\* the canvas's default compositing (globalCompositeOperation 'source-over')
\* of a source pixel onto the pixel already in the bitmap
SourceOver(src, dst) ==
    LET a == src.a + DivRound(dst.a * (255 - src.a), 255)
        Channel(k) ==
            IF a = 0 THEN 0
            ELSE DivRound(src.c[k] * src.a * 255 + dst.c[k] * dst.a * (255 - src.a),
                          255 * a)
    IN  Pixel(<<Channel(1), Channel(2), Channel(3)>>, a)

\* document.createElement('canvas'), canvas.width = w, canvas.height = h:
\* a bitmap of transparent black
NewCanvas(width, height) ==
    Raster(width, height, [p \in Grid(width, height) |-> TransparentBlack])

\* ctx.fillStyle = colour; ctx.fillRect(0, 0, canvas.width, canvas.height)
FillRect(canvas, colour) ==
    [canvas EXCEPT !.data =
        [p \in DOMAIN canvas.data |-> SourceOver(Pixel(colour, 255), canvas.data[p])]]

\* ctx.drawImage(img, 0, 0): the image composited at the origin, clipped
\* to the canvas
DrawImage(canvas, img) ==
    [canvas EXCEPT !.data =
        [p \in DOMAIN canvas.data |->
            IF p \in DOMAIN img.data
            THEN SourceOver(img.data[p], canvas.data[p])
            ELSE canvas.data[p]]]

(***************************************************************************)
(* Files, blobs and the values a promise settles with.                     *)
(***************************************************************************)
\* a File: its name and declared type (sequences of characters) and what
\* its bytes decode to as an image (a raster, or Garbage)
File(name, type, image) ==
    [kind |-> "file", name |-> name, type |-> type, image |-> image]

\* the Blob an encoder made of a bitmap
Blob(type, quality, image) ==
    [kind |-> "blob", type |-> type, quality |-> quality, image |-> image]

Null == [kind |-> "null"]
NoValue == [kind |-> "none"]

\* new Error(message)
Error(message) == [kind |-> "error", message |-> message]

\* the Event an <img> hands to its onerror handler (it has no message)
ErrorEvent == [kind |-> "event"]

\* what `new Image()` makes of the bytes behind an object URL
Decode(file) == file.image

\* the encoder behind canvas.toBlob(callback, type, quality): 'image/jpeg'
\* has no alpha channel, the bitmap is composited onto opaque black; PNG
\* and WebP keep the alpha channel.  The colour loss of the lossy codecs
\* is left out: nothing below depends on the colours of a decoded output.
Encode(canvas, type, quality) ==
    Blob(type, quality,
         IF type = "image/jpeg"
         THEN [canvas EXCEPT !.data =
                 [p \in DOMAIN canvas.data |->
                     SourceOver(canvas.data[p], Pixel(Black, 255))]]
         ELSE canvas)

(***************************************************************************)
(* convertImage(file, format, quality = 0.9): the steps of one call, as    *)
(* functions of the call's record c.  pc is "loading" (img.src set),       *)
(* "encoding" (onload ran, toBlob's callback is due) or "done"; url is the *)
(* object URL's state; promise and value are the promise's state and what  *)
(* it settled with; settles counts the calls of resolve and reject, loads  *)
(* the assignments of img.src, toBlobs the calls of canvas.toBlob; blob is *)
(* what toBlob handed to its callback.                                     *)
(***************************************************************************)
\* the default of the quality parameter, 0.9, as numerator and denominator
DefaultQuality == <<9, 10>>

NoConvertImage ==
    [pc |-> "idle", file |-> NoValue, format |-> "", quality |-> DefaultQuality,
     url |-> "none", promise |-> "none", value |-> NoValue, settles |-> 0,
     loads |-> 0, toBlobs |-> 0, img |-> NoValue, canvas |-> NoValue,
     blob |-> NoValue, reencodes |-> NoValue, steps |-> <<>>]

\* the call went through the named step
Step(c, name) == [c EXCEPT !.steps = Append(@, name)]

\* resolve(v): the first call of resolve or reject settles the promise
Resolve(c, v) ==
    Step(IF c.promise = "pending"
         THEN [c EXCEPT !.promise = "fulfilled", !.value = v, !.settles = @ + 1]
         ELSE [c EXCEPT !.settles = @ + 1],
         "resolve")

\* reject(e)
Reject(c, e) ==
    Step(IF c.promise = "pending"
         THEN [c EXCEPT !.promise = "rejected", !.value = e, !.settles = @ + 1]
         ELSE [c EXCEPT !.settles = @ + 1],
         "reject")

\* URL.revokeObjectURL(url)
RevokeObjectURL(c) == Step([c EXCEPT !.url = "revoked"], "revoke")

\* the promise executor: new Image(), URL.createObjectURL(file), the two
\* handlers set, img.src = url
ConvertImage(file, format, quality) ==
    [NoConvertImage EXCEPT
        !.pc = "loading", !.file = file, !.format = format,
        !.quality = quality, !.url = "live", !.promise = "pending",
        !.loads = 1, !.steps = <<"src">>]

\* a canvas whose width and height are exchanged
CanvasTransposed(img) == NewCanvas(img.height, img.width)

\* canvas.width = img.width; canvas.height = img.height
CanvasFor(img) == NewCanvas(img.width, img.height)

\* no format gets a background
WhiteBackgroundNever(format) == FALSE

\* if (format === 'image/jpeg')
WhiteBackground(format) == format = "image/jpeg"

\* the white fillRect (for JPEG) and then drawImage(img, 0, 0)
Paint(canvas, img, format) ==
    DrawImage(IF WhiteBackground(format) THEN FillRect(canvas, White) ELSE canvas,
              img)

\* an onload that resolves with the encoding of the canvas as soon as it
\* has asked for it, without waiting for the toBlob callback
ImgOnloadResolvesAtOnce(c, hasCtx) ==
    LET img    == Decode(c.file)
        canvas == Paint(CanvasFor(img), img, c.format)
        drawn  == Step(Step(Step(c, "load"), "draw"), "toBlob")
    IN  [Resolve(drawn, Encode(canvas, c.format, c.quality)) EXCEPT
            !.pc = "encoding", !.img = img, !.canvas = canvas,
            !.toBlobs = @ + 1]

\* img.onload.  hasCtx: canvas.getContext('2d') gave a context.  The
\* steps: the image has loaded, it was drawn, toBlob was called.
ImgOnload(c, hasCtx) ==
    LET img    == Decode(c.file)
        canvas == CanvasFor(img)
        loaded == Step(c, "load")
    IN  IF ~hasCtx
        THEN [Reject(loaded, Error("Could not get canvas context")) EXCEPT
                 !.pc = "done", !.img = img, !.canvas = canvas]
        ELSE [Step(Step(loaded, "draw"), "toBlob") EXCEPT
                 !.pc = "encoding", !.img = img,
                 !.canvas = Paint(canvas, img, c.format),
                 !.toBlobs = @ + 1]

\* the blob is resolved with whatever it is
BlobAlwaysResolved(c, blob) == Resolve(c, blob)

\* if (blob) resolve(blob); else reject(new Error("Conversion failed"))
BlobSettles(c, blob) ==
    IF blob.kind # "null"
    THEN Resolve(c, blob)
    ELSE Reject(c, Error("Conversion failed"))

\* the callback of canvas.toBlob.  encoded: the encoder produced a blob
\* (the callback gets null when it could not).
ToBlobCallback(c, encoded) ==
    LET blob == IF encoded THEN Encode(c.canvas, c.format, c.quality) ELSE Null
    IN  [RevokeObjectURL(BlobSettles(Step(c, "blob"), blob)) EXCEPT
            !.pc = "done", !.blob = blob]

\* img.onerror = (e) => { reject(e); URL.revokeObjectURL(url); }
ImgOnerror(c) ==
    [RevokeObjectURL(Reject(Step(c, "error"), ErrorEvent)) EXCEPT !.pc = "done"]

\* the image behind the URL decodes (onload fires) or does not (onerror)
Decodes(file) == Decode(file).kind = "raster"

(***************************************************************************)
(* Bounds of the model.                                                    *)
(***************************************************************************)
\* the largest image width and height given to convertImageToPDF
MaxDim == 10

\* the largest width and height of an image given to convertImage
MaxSide == 2

\* the most handleProcess calls in flight at a time
MaxCalls == 2

\* the most files the App accepts in a run
MaxLoads == 2

VARIABLES
    pdf,    \* the convertImageToPDF call: its image, promise, object URL, document
    conv,   \* the convertImage call: its file, format, promise, object URL, canvas
    activeFile,     \* useState<MediaFile | null>(null)
    status,         \* useState<ConversionStatus>(ConversionStatus.IDLE)
    result,         \* useState<ProcessingResult | null>(null)
    errorMsg,       \* useState<string>('')
    selectedFormat, \* useState<string>('')
    progress,       \* useState<number>(0)
    calls,          \* the handleProcess calls awaiting their conversion
    loads,          \* the number of files accepted so far (the next MediaFile id)
    last            \* the handler that ran last, and what it was given

appVars == <<activeFile, status, result, errorMsg, selectedFormat, progress,
             calls, loads, last>>

vars == <<pdf, conv, appVars>>

\* what a step of convertImageToPDF, of convertImage on its own, and of
\* the App leaves alone
notPdf == <<conv, appVars>>
notConv == <<pdf, appVars>>
notApp == <<pdf, conv>>

\* enum ConversionStatus
ConversionStatus ==
    [IDLE |-> "idle", PROCESSING |-> "processing", SUCCESS |-> "success",
     ERROR |-> "error"]

\* the App as mounted: the initial values of its state hooks
AppMounted ==
    /\ activeFile = [kind |-> "null"]
    /\ status = ConversionStatus.IDLE
    /\ result = [kind |-> "null"]
    /\ errorMsg = ""
    /\ selectedFormat = ""
    /\ progress = 0
    /\ calls = <<>>
    /\ loads = 0
    /\ last = [op |-> "mount"]

None == "none"

\* One convertImageToPDF call.  pc: "idle" (no call yet), "loading" (img.src
\* set, neither load nor error fired), "done" (a handler ran to its end),
\* "threw" (the onload handler ended in an exception of doc.addImage).
PdfIdle ==
    [pc |-> "idle", img |-> None, url |-> None, promise |-> None,
     doc |-> None, place |-> None, page |-> None]

\* new jsPDF(): one document with its first page and no image
NewDoc == [pages |-> 1, images |-> <<>>]

\* a paginator that starts a page for the image and embeds it there
AddImageOnNewPage(doc, imgData, x, y, finalWidth, finalHeight) ==
    [doc EXCEPT !.pages = @ + 1,
                !.images = Append(@,
        [data |-> imgData, format |-> "JPEG", x |-> x, y |-> y,
         width |-> finalWidth, height |-> finalHeight])]

\* doc.addImage(imgData, 'JPEG', x, y, finalWidth, finalHeight)
AddImage(doc, imgData, x, y, finalWidth, finalHeight) ==
    [doc EXCEPT !.images = Append(@,
        [data |-> imgData, format |-> "JPEG", x |-> x, y |-> y,
         width |-> finalWidth, height |-> finalHeight])]

\* canvas.toDataURL('image/jpeg', 1.0) of a canvas of the image's size on
\* which the image was drawn when a 2d context was there (ctx?.drawImage)
ToDataURL(img, hasCtx) ==
    [type |-> "image/jpeg", width |-> img.width, height |-> img.height,
     drawn |-> hasCtx]

\* convertImageToPDF(file): createObjectURL, handlers set, img.src = url
CallConvertImageToPDF(w, h) ==
    /\ pdf.pc # "loading"
    /\ pdf' = [pc |-> "loading", img |-> [width |-> w, height |-> h],
               url |-> "live", promise |-> "pending",
               doc |-> None, place |-> None, page |-> None]
    /\ UNCHANGED notPdf

\* img.onload of convertImageToPDF.  hasCtx: getContext('2d') gave a
\* context; added: doc.addImage returned (it throws on image data it
\* cannot embed, and the handler then ends there).
PdfOnload(hasCtx, added) ==
    /\ pdf.pc = "loading"
    /\ LET doc   == NewDoc
           page  == PageSize
           place == Placement(pdf.img.width, pdf.img.height, page.width, page.height)
           data  == ToDataURL(pdf.img, hasCtx)
       IN  IF added
           THEN pdf' = [pdf EXCEPT
                   !.pc = "done",
                   !.page = page,
                   !.place = place,
                   !.doc = AddImage(doc, data, place.x, place.y,
                                    place.finalWidth, place.finalHeight),
                   !.promise = "fulfilled",
                   !.url = "revoked"]
           ELSE pdf' = [pdf EXCEPT
                   !.pc = "threw",
                   !.page = page,
                   !.place = place,
                   !.doc = doc]
    /\ UNCHANGED notPdf

\* img.onerror = reject
PdfOnerror ==
    /\ pdf.pc = "loading"
    /\ pdf' = [pdf EXCEPT !.pc = "done", !.promise = "rejected"]
    /\ UNCHANGED notPdf

InitPDF ==
    /\ pdf = PdfIdle
    /\ conv = NoConvertImage
    /\ AppMounted

NextPDF ==
    \/ \E w \in 1..MaxDim, h \in 1..MaxDim : CallConvertImageToPDF(w, h)
    \/ \E hasCtx \in BOOLEAN, added \in BOOLEAN : PdfOnload(hasCtx, added)
    \/ PdfOnerror

SpecPDF == InitPDF /\ [][NextPDF]_vars

(***************************************************************************)
(* convertImage on its own: calls with every image of the bounded family   *)
(* (two-tone chequered images and undecodable bytes), every format, and    *)
(* the re-encoding of a call's output at the same format.                  *)
(***************************************************************************)
Formats == {"image/png", "image/jpeg", "image/webp"}

SourcePixels == {TransparentBlack, Pixel(Red, 128), Pixel(Red, 255)}

\* a w x h image chequered with the pixels p and q
Chequered(w, h, p, q) ==
    Raster(w, h, [xy \in Grid(w, h) |->
                    IF (xy[1] + xy[2]) % 2 = 0 THEN p ELSE q])

SourceImages ==
    {Chequered(w, h, p, q) :
        w \in 1..MaxSide, h \in 1..MaxSide, p \in SourcePixels, q \in SourcePixels}

\* the name and declared type play no part in convertImage
SourceFile(image) == File(<<>>, <<>>, image)

\* convertImage(file, format) called
CallConvertImage(file, format) ==
    /\ conv.pc \in {"idle", "done"}
    /\ conv' = ConvertImage(file, format, DefaultQuality)
    /\ UNCHANGED notConv

\* convertImage(blob, format) called with the blob the last call resolved
\* with, at the same format
CallConvertImageAgain ==
    /\ conv.pc = "done"
    /\ conv.promise = "fulfilled"
    /\ conv' = [ConvertImage(conv.value, conv.format, DefaultQuality) EXCEPT
                   !.reencodes = conv.value]
    /\ UNCHANGED notConv

\* the image loaded: img.onload runs
ImageLoaded(hasCtx) ==
    /\ conv.pc = "loading"
    /\ Decodes(conv.file)
    /\ conv' = ImgOnload(conv, hasCtx)
    /\ UNCHANGED notConv

\* the image failed to load: img.onerror runs
ImageFailed ==
    /\ conv.pc = "loading"
    /\ ~Decodes(conv.file)
    /\ conv' = ImgOnerror(conv)
    /\ UNCHANGED notConv

\* the encoder finished: toBlob's callback runs
ToBlobDone(encoded) ==
    /\ conv.pc = "encoding"
    /\ conv' = ToBlobCallback(conv, encoded)
    /\ UNCHANGED notConv

InitImage ==
    /\ pdf = PdfIdle
    /\ conv = NoConvertImage
    /\ AppMounted

NextImage ==
    \/ \E image \in SourceImages, format \in Formats :
           CallConvertImage(SourceFile(image), format)
    \/ \E format \in Formats : CallConvertImage(SourceFile(Garbage), format)
    \/ CallConvertImageAgain
    \/ \E hasCtx \in BOOLEAN : ImageLoaded(hasCtx)
    \/ ImageFailed
    \/ \E encoded \in BOOLEAN : ToBlobDone(encoded)

SpecImage == InitImage /\ [][NextImage]_vars

(***************************************************************************)
(* The App component.  Strings the code takes apart (a file's declared     *)
(* type, a file's name, an option's extension) are sequences of            *)
(* characters; strings it only passes on or compares are TLA+ strings.     *)
(***************************************************************************)
\* s.startsWith(prefix)
StartsWith(s, prefix) ==
    Len(s) >= Len(prefix) /\ SubSeq(s, 1, Len(prefix)) = prefix

\* s.split('.'): the segments between the dots (one segment when there is
\* no dot)
RECURSIVE SplitFrom(_, _, _)
SplitFrom(s, i, segment) ==
    IF i > Len(s) THEN <<segment>>
    ELSE IF s[i] = "." THEN <<segment>> \o SplitFrom(s, i + 1, <<>>)
    ELSE SplitFrom(s, i + 1, Append(segment, s[i]))

Split(s) == SplitFrom(s, 1, <<>>)

\* parts.join('.')
RECURSIVE Join(_)
Join(parts) ==
    IF Len(parts) = 0 THEN <<>>
    ELSE IF Len(parts) = 1 THEN parts[1]
    ELSE parts[1] \o <<".">> \o Join(Tail(parts))

\* parts.slice(0, -1)
SliceButLast(parts) == SubSeq(parts, 1, Len(parts) - 1)

\* a || b on strings
OrElse(a, b) == IF a = "" THEN b ELSE a

\* enum MediaType, as src/types.ts declares it
MediaType ==
    [VIDEO |-> "video", AUDIO |-> "audio", IMAGE |-> "image", UNKNOWN |-> "unknown"]

Undefined == "undefined"

\* enumObject.KEY: the member's value, undefined for a key the enum
\* object does not have
Member(enum, key) == IF key \in DOMAIN enum THEN enum[key] ELSE Undefined

ImagePrefix == <<"i", "m", "a", "g", "e", "/">>
VideoPrefix == <<"v", "i", "d", "e", "o", "/">>
AudioPrefix == <<"a", "u", "d", "i", "o", "/">>
ApplicationPdf ==
    <<"a", "p", "p", "l", "i", "c", "a", "t", "i", "o", "n", "/", "p", "d", "f">>

getMediaType(file) ==
    IF StartsWith(file.type, ImagePrefix) THEN Member(MediaType, "IMAGE")
    ELSE IF StartsWith(file.type, VideoPrefix) THEN Member(MediaType, "VIDEO")
    ELSE IF StartsWith(file.type, AudioPrefix) THEN Member(MediaType, "AUDIO")
    ELSE IF file.type = ApplicationPdf THEN Member(MediaType, "DOCUMENT")
    ELSE Member(MediaType, "UNKNOWN")

\* the files given to the App: a photo with a transparent and an opaque
\* pixel, bytes declared as a JPEG that do not decode, a video, a sound, a
\* PDF, a text file, and a file without a declared type
Files ==
    { File(<<"a", ".", "b", ".", "p", "n", "g">>,
           ImagePrefix \o <<"p", "n", "g">>,
           Chequered(2, 1, Pixel(Red, 255), TransparentBlack)),
      File(<<"c">>, ImagePrefix \o <<"j", "p", "e", "g">>, Garbage),
      File(<<"v", ".", "m", ".", "m", "p", "4">>,
           VideoPrefix \o <<"m", "p", "4">>, Garbage),
      File(<<"s", ".", "w", "a", "v">>, AudioPrefix \o <<"w", "a", "v">>, Garbage),
      File(<<"d", ".", "p", "d", "f">>, ApplicationPdf, Garbage),
      File(<<"t", ".", "t", "x", "t">>,
           <<"t", "e", "x", "t", "/", "p", "l", "a", "i", "n">>, Garbage),
      File(<<"r">>, <<>>, Garbage) }

NullFile == [kind |-> "null"]
NullResult == [kind |-> "null"]

\* URL.createObjectURL(object): a URL that stands for the object
ObjectURL(object) == [kind |-> "url", of |-> object]

\* the MediaFile processFile makes (its extension label, made by a helper
\* that is not part of the sources at hand, is left out)
MediaFile(file, type, id) ==
    [kind |-> "mediafile", file |-> file, previewUrl |-> ObjectURL(file),
     type |-> type, id |-> id]

Option(label, value, extension, type) ==
    [label |-> label, value |-> value, extension |-> extension, type |-> type]

\* { ...baseAI, label }
BaseAI(label) == Option(label, "ai_analysis", <<"t", "x", "t">>, "ai-analysis")

Conversion(label, value, extension) == Option(label, value, extension, "conversion")

\* getOptions() for the active file af: the switch compares af.type with
\* each case's MediaType member by ===
getOptions(af) ==
    IF af.kind = "null" THEN <<>>
    ELSE IF af.type = Member(MediaType, "IMAGE") THEN
        << Conversion("PNG Image", "png", <<"p", "n", "g">>),
           Conversion("JPEG Image", "jpg", <<"j", "p", "g">>),
           Conversion("WebP Image", "webp", <<"w", "e", "b", "p">>),
           BaseAI("AI: Describe Image") >>
    ELSE IF af.type = Member(MediaType, "VIDEO") THEN
        << Conversion("MP4 Video", "mp4", <<"m", "p", "4">>),
           Conversion("AVI Video", "avi", <<"a", "v", "i">>),
           Conversion("MOV Video", "mov", <<"m", "o", "v">>),
           Conversion("MKV Video", "mkv", <<"m", "k", "v">>),
           Conversion("GIF Animation", "gif", <<"g", "i", "f">>),
           Conversion("MP3 Audio (Extract)", "mp3", <<"m", "p", "3">>),
           BaseAI("AI: Summarize Video") >>
    ELSE IF af.type = Member(MediaType, "AUDIO") THEN
        << Conversion("MP3 Audio", "mp3", <<"m", "p", "3">>),
           Conversion("WAV Audio", "wav", <<"w", "a", "v">>),
           Conversion("AAC Audio", "aac", <<"a", "a", "c">>),
           Conversion("FLAC Audio", "flac", <<"f", "l", "a", "c">>),
           BaseAI("AI: Transcribe Audio") >>
    ELSE IF af.type = Member(MediaType, "DOCUMENT") THEN
        << BaseAI("AI: Summarize Document"),
           Conversion("Convert to TXT", "txt", <<"t", "x", "t">>),
           Conversion("Convert to DOCX", "docx", <<"d", "o", "c", "x">>) >>
    ELSE <<>>

\* a find that matches no option
FindOptionNone(options, value) == [kind |-> "undefined"]

\* getOptions().find(o => o.value === selectedFormat): the first such
\* option, or undefined
FindOption(options, value) ==
    IF \E i \in 1..Len(options) : options[i].value = value
    THEN LET i == CHOOSE j \in 1..Len(options) :
                    /\ options[j].value = value
                    /\ \A k \in 1..(j - 1) : options[k].value # value
         IN  [kind |-> "option", option |-> options[i]]
    ELSE [kind |-> "undefined"]

\* s.toUpperCase() for the lower-case letters
UpperCase ==
    [a |-> "A", b |-> "B", c |-> "C", d |-> "D", e |-> "E", f |-> "F",
     g |-> "G", h |-> "H", i |-> "I", j |-> "J", k |-> "K", l |-> "L",
     m |-> "M", n |-> "N", o |-> "O", p |-> "P", q |-> "Q", r |-> "R",
     s |-> "S", t |-> "T", u |-> "U", v |-> "V", w |-> "W", x |-> "X",
     y |-> "Y", z |-> "Z"]

ToUpperCase(s) ==
    [i \in 1..Len(s) |-> IF s[i] \in DOMAIN UpperCase THEN UpperCase[s[i]] ELSE s[i]]

UnsupportedMessage ==
    "Unsupported file type. Please upload Video, Audio, Image, or PDF."

\* what the App shows: the drop zone with the file input while no file is
\* active, the file's panel otherwise; in the panel the format select
\* (disabled while processing and after success), the process button
\* (shown unless the status is success, disabled without a format and
\* while processing) and the error banner (shown when the status is error)
DropZoneShown == activeFile.kind = "null"

SelectEnabled ==
    /\ activeFile.kind # "null"
    /\ status \notin {ConversionStatus.PROCESSING, ConversionStatus.SUCCESS}

ProcessButtonEnabled ==
    /\ activeFile.kind # "null"
    /\ status # ConversionStatus.SUCCESS
    /\ ~(selectedFormat = "" \/ status = ConversionStatus.PROCESSING)

ErrorBannerShown ==
    /\ activeFile.kind # "null"
    /\ status = ConversionStatus.ERROR

\* processFile(file), reached from the drop zone or the file input
processFile(file) ==
    /\ DropZoneShown
    /\ LET type == getMediaType(file)
       IN  /\ last' = [op |-> "processFile", file |-> file, type |-> type]
           /\ IF type = Member(MediaType, "UNKNOWN")
              THEN /\ errorMsg' = UnsupportedMessage
                   /\ UNCHANGED <<activeFile, status, result, selectedFormat,
                                  progress, loads>>
              ELSE /\ loads < MaxLoads
                   /\ activeFile' = MediaFile(file, type, loads + 1)
                   /\ status' = ConversionStatus.IDLE
                   /\ result' = NullResult
                   /\ errorMsg' = ""
                   /\ selectedFormat' = ""
                   /\ progress' = 0
                   /\ loads' = loads + 1
    /\ UNCHANGED calls
    /\ UNCHANGED notApp

\* clearFile(), the X button of the panel and "Convert Another"
clearFile ==
    /\ activeFile.kind # "null"
    /\ activeFile' = NullFile
    /\ status' = ConversionStatus.IDLE
    /\ result' = NullResult
    /\ selectedFormat' = ""
    /\ progress' = 0
    /\ last' = [op |-> "clearFile"]
    /\ UNCHANGED <<errorMsg, calls, loads>>
    /\ UNCHANGED notApp

\* the select's onChange: setSelectedFormat(e.target.value), the value of
\* the placeholder ('') or of one of getOptions()
selectFormat(value) ==
    /\ SelectEnabled
    /\ value # selectedFormat
    /\ \/ value = ""
       \/ \E i \in 1..Len(getOptions(activeFile)) :
              getOptions(activeFile)[i].value = value
    /\ selectedFormat' = value
    /\ last' = [op |-> "selectFormat"]
    /\ UNCHANGED <<activeFile, status, result, errorMsg, progress, calls, loads>>
    /\ UNCHANGED notApp

(***************************************************************************)
(* handleProcess.  A call runs up to its await in the click's own step;    *)
(* what it awaits settles in a later step, and the rest of the call (the   *)
(* code after the await, or the catch block) runs in that same step, as a  *)
(* microtask.  A call in flight keeps the activeFile and the option of the *)
(* render it was started from.                                             *)
(***************************************************************************)
\* setInterval(..., 300) and setTimeout(..., 2000) of simulateProgress
IntervalMs == 300
TimeoutMs == 2000

\* the interval's callback runs at most this often before the timeout's
\* (timers run in the order of their due times)
TicksBeforeTimeout == (TimeoutMs - 1) \div IntervalMs

\* Math.random() * 15, in whole numbers
RandomSteps == {0, 14}

Call(af, option, await, convertImage, interval) ==
    [file |-> af, option |-> option, await |-> await, conv |-> convertImage,
     interval |-> interval, ticks |-> 0]

Remove(seq, i) == SubSeq(seq, 1, i - 1) \o SubSeq(seq, i + 1, Len(seq))

\* option.value === 'png' ? 'image/png' : option.value === 'webp' ?
\* 'image/webp' : 'image/jpeg'
Mime(value) ==
    IF value = "png" THEN "image/png"
    ELSE IF value = "webp" THEN "image/webp"
    ELSE "image/jpeg"

ProcessingResult(url, filename, text) ==
    [kind |-> "result", url |-> url, filename |-> filename, text |-> text]

\* new Blob([textResult], { type: 'text/plain' })
TextBlob(text) == [kind |-> "blob", type |-> "text/plain", text |-> text]

\* the click on the process button: handleProcess up to its await
handleProcess ==
    /\ ProcessButtonEnabled
    /\ Len(calls) < MaxCalls
    /\ ~(activeFile.kind = "null" \/ selectedFormat = "")
    /\ status' = ConversionStatus.PROCESSING
    /\ errorMsg' = ""
    /\ result' = NullResult
    /\ LET found == FindOption(getOptions(activeFile), selectedFormat)
       IN  IF found.kind = "undefined"
           THEN progress' = 0 /\ UNCHANGED calls
           ELSE IF found.option.type = "ai-analysis"
           THEN /\ progress' = 30
                /\ calls' = Append(calls,
                       Call(activeFile, found.option, "analysis",
                            NoConvertImage, "none"))
           ELSE IF /\ activeFile.type = Member(MediaType, "IMAGE")
                   /\ found.option.value \in {"png", "jpg", "webp"}
           THEN /\ progress' = 0
                /\ calls' = Append(calls,
                       Call(activeFile, found.option, "convertImage",
                            ConvertImage(activeFile.file, Mime(found.option.value),
                                         DefaultQuality),
                            "none"))
           ELSE /\ progress' = 0
                /\ calls' = Append(calls,
                       Call(activeFile, found.option, "simulateProgress",
                            NoConvertImage, "set"))
    /\ last' = [op |-> "handleProcess"]
    /\ UNCHANGED <<activeFile, selectedFormat, loads>>
    /\ UNCHANGED notApp

\* the end of the try block of call i: setResult, setStatus(SUCCESS), with
\* the progress the branch left
Succeeds(i, res, prog) ==
    /\ result' = res
    /\ status' = ConversionStatus.SUCCESS
    /\ progress' = prog
    /\ calls' = Remove(calls, i)
    /\ last' = [op |-> "succeeded", place |-> i, file |-> calls[i].file,
                option |-> calls[i].option]
    /\ UNCHANGED <<activeFile, errorMsg, selectedFormat, loads>>

\* err.message, '' for a value without one
MessageOf(err) == IF err.kind = "error" THEN err.message ELSE ""

\* the catch block of call i
Fails(i, err) ==
    /\ status' = ConversionStatus.ERROR
    /\ errorMsg' = OrElse(MessageOf(err), "An error occurred during processing.")
    /\ calls' = Remove(calls, i)
    /\ last' = [op |-> "failed", place |-> i, file |-> calls[i].file,
                option |-> calls[i].option, error |-> err]
    /\ UNCHANGED <<activeFile, result, selectedFormat, progress, loads>>

\* what the generative service answers: a text (possibly empty) or a failure
Responses ==
    { [kind |-> "text", text |-> "generated text"],
      [kind |-> "text", text |-> ""],
      [kind |-> "failure"] }

\* analyzeImage(file): response.text || "No description generated.", and
\* every failure thrown anew as one Error
analyzeImage(response) ==
    IF response.kind = "failure"
    THEN Error("Failed to analyze image with AI.")
    ELSE [kind |-> "text", text |-> OrElse(response.text, "No description generated.")]

\* processAudio(file)
processAudio(response) ==
    IF response.kind = "failure"
    THEN Error("Failed to process audio with AI.")
    ELSE [kind |-> "text", text |-> OrElse(response.text, "No transcript generated.")]

\* analyzeDocument(file): free-form text, or a generic "analysis failed"
\* error
analyzeDocument(response) ==
    IF response.kind = "failure"
    THEN Error("analysis failed")
    ELSE [kind |-> "text", text |-> response.text]

VideoDemoText ==
    "Video content analysis requires backend resources. (Demo Output: The video features a clear instructional walkthrough...)"

\* the branch of the ai-analysis block the file's type selects
AnalysisFor(af) ==
    IF af.type = Member(MediaType, "IMAGE") THEN "analyzeImage"
    ELSE IF af.type = Member(MediaType, "AUDIO") THEN "processAudio"
    ELSE IF af.type = Member(MediaType, "DOCUMENT") THEN "analyzeDocument"
    ELSE "setTimeout"

AnalysisPrefix == <<"a", "n", "a", "l", "y", "s", "i", "s", "_">>
ConvertedPrefix == <<"c", "o", "n", "v", "e", "r", "t", "e", "d", "_">>
DotTxt == <<".", "t", "x", "t">>

\* the rest of the ai-analysis block once textResult is there
AnalysisResult(call, textResult) ==
    ProcessingResult(ObjectURL(TextBlob(textResult)),
                     AnalysisPrefix \o call.file.file.name \o DotTxt,
                     <<textResult>>)

\* the awaited analysis of call i settles
AnalysisSettles(i, response) ==
    /\ i \in DOMAIN calls
    /\ calls[i].await = "analysis"
    /\ AnalysisFor(calls[i].file) # "setTimeout"
    /\ LET service == AnalysisFor(calls[i].file)
           outcome == IF service = "analyzeImage" THEN analyzeImage(response)
                      ELSE IF service = "processAudio" THEN processAudio(response)
                      ELSE analyzeDocument(response)
       IN  IF outcome.kind = "error"
           THEN Fails(i, outcome)
           ELSE Succeeds(i, AnalysisResult(calls[i], outcome.text), 100)
    /\ UNCHANGED notApp

\* await new Promise(r => setTimeout(r, 1500)) of call i is over
AnalysisTimeout(i) ==
    /\ i \in DOMAIN calls
    /\ calls[i].await = "analysis"
    /\ AnalysisFor(calls[i].file) = "setTimeout"
    /\ Succeeds(i, AnalysisResult(calls[i], VideoDemoText), 100)
    /\ UNCHANGED notApp

\* `${nameParts.slice(0, -1).join('.')}.${option.extension}`
NewName(name, extension) ==
    Join(SliceButLast(Split(name))) \o <<".">> \o extension

\* the rest of the image block once convertImage resolved with blob (the
\* result has no text)
ImageResult(call, blob) ==
    ProcessingResult(ObjectURL(blob),
                     NewName(call.file.file.name, call.option.extension),
                     <<>>)

\* a step of the convertImage call that call i awaits led to c
AfterConvertImage(i, c) ==
    IF c.promise = "fulfilled" THEN Succeeds(i, ImageResult(calls[i], c.value), 100)
    ELSE IF c.promise = "rejected" THEN Fails(i, c.value)
    ELSE /\ calls' = [calls EXCEPT ![i].conv = c]
         /\ last' = [op |-> "convertImage"]
         /\ UNCHANGED <<activeFile, status, result, errorMsg, selectedFormat,
                        progress, loads>>

\* img.onload of the convertImage call that call i awaits
ImageLoadedIn(i, hasCtx) ==
    /\ i \in DOMAIN calls
    /\ calls[i].await = "convertImage"
    /\ calls[i].conv.pc = "loading"
    /\ Decodes(calls[i].conv.file)
    /\ AfterConvertImage(i, ImgOnload(calls[i].conv, hasCtx))
    /\ UNCHANGED notApp

\* img.onerror of the convertImage call that call i awaits
ImageFailedIn(i) ==
    /\ i \in DOMAIN calls
    /\ calls[i].await = "convertImage"
    /\ calls[i].conv.pc = "loading"
    /\ ~Decodes(calls[i].conv.file)
    /\ AfterConvertImage(i, ImgOnerror(calls[i].conv))
    /\ UNCHANGED notApp

\* the toBlob callback of the convertImage call that call i awaits
ToBlobDoneIn(i, encoded) ==
    /\ i \in DOMAIN calls
    /\ calls[i].await = "convertImage"
    /\ calls[i].conv.pc = "encoding"
    /\ AfterConvertImage(i, ToBlobCallback(calls[i].conv, encoded))
    /\ UNCHANGED notApp

\* the interval callback of the simulateProgress that call i awaits:
\* setProgress(prev => prev >= 95 ? (clearInterval, 95) : prev + random)
ProgressTick(i, step) ==
    /\ i \in DOMAIN calls
    /\ calls[i].await = "simulateProgress"
    /\ calls[i].interval = "set"
    /\ calls[i].ticks < TicksBeforeTimeout
    /\ IF progress >= 95
       THEN /\ progress' = 95
            /\ calls' = [calls EXCEPT ![i].interval = "cleared",
                                      ![i].ticks = @ + 1]
       ELSE /\ progress' = progress + step
            /\ calls' = [calls EXCEPT ![i].ticks = @ + 1]
    /\ last' = [op |-> "interval"]
    /\ UNCHANGED <<activeFile, status, result, errorMsg, selectedFormat, loads>>
    /\ UNCHANGED notApp

\* `converted_${name.split('.')[0]}.${option.extension}`
ConvertedName(name, extension) ==
    ConvertedPrefix \o Split(name)[1] \o <<".">> \o extension

\* a conversion that hands out bytes of its own making under the new type
SimulatedResultTranscoded(call) ==
    ProcessingResult(ObjectURL(Blob(call.option.extension, DefaultQuality,
                                    call.file.file.image)),
                     ConvertedName(call.file.file.name, call.option.extension),
                     <<>>)

\* the rest of the last block of handleProcess: the result is the file
\* itself under a new name
SimulatedResult(call) ==
    ProcessingResult(ObjectURL(call.file.file),
                     ConvertedName(call.file.file.name, call.option.extension),
                     <<"Conversion to ">> \o ToUpperCase(call.option.extension)
                        \o <<" simulated. In a production environment with Python/MoviePy/PDF tools, this file would be processed on the server.">>)

\* the timeout callback of the simulateProgress that call i awaits:
\* clearInterval, setProgress(100), resolve(); the call then goes on
ProgressTimeout(i) ==
    /\ i \in DOMAIN calls
    /\ calls[i].await = "simulateProgress"
    /\ Succeeds(i, SimulatedResult(calls[i]), 100)
    /\ UNCHANGED notApp

\* the values the user picks in the format select: the placeholder, the
\* three image formats, the analysis, and one or two of the simulated
\* conversions of each kind of file
SelectValues == {"", "png", "jpg", "webp", "ai_analysis", "mp4", "mp3", "txt"}

Init ==
    /\ pdf = PdfIdle
    /\ conv = NoConvertImage
    /\ AppMounted

Next ==
    \/ \E file \in Files : processFile(file)
    \/ clearFile
    \/ \E value \in SelectValues : selectFormat(value)
    \/ handleProcess
    \/ \E i \in 1..MaxCalls, response \in Responses : AnalysisSettles(i, response)
    \/ \E i \in 1..MaxCalls : AnalysisTimeout(i)
    \/ \E i \in 1..MaxCalls, hasCtx \in BOOLEAN : ImageLoadedIn(i, hasCtx)
    \/ \E i \in 1..MaxCalls : ImageFailedIn(i)
    \/ \E i \in 1..MaxCalls, encoded \in BOOLEAN : ToBlobDoneIn(i, encoded)
    \/ \E i \in 1..MaxCalls, step \in RandomSteps : ProgressTick(i, step)
    \/ \E i \in 1..MaxCalls : ProgressTimeout(i)

Spec == Init /\ [][Next]_vars

(***************************************************************************)
(* The paginator's placement rectangle (C1 - C3).  The statements are     *)
(* about the exact values of the binary64 numbers the code computed.       *)
(***************************************************************************)
\* the onload handler has run and computed a placement
Placed == pdf.pc = "threw" \/ (pdf.pc = "done" /\ pdf.promise = "fulfilled")

\* C1 as stated: the scaled image never exceeds either page dimension,
\* finalWidth <= pageWidth and finalHeight <= pageHeight.
C1_NeverExceedsPage ==
    Placed => /\ ExLeq(pdf.place.finalWidth, pdf.page.width)
              /\ ExLeq(pdf.place.finalHeight, pdf.page.height)

\* C1 amended: the scaled image exceeds a page dimension by at most one
\* unit in the last place of that dimension (the product imgWidth * ratio
\* is rounded after the quotient was): finalWidth <= pageWidth + ulp and
\* finalHeight <= pageHeight + ulp.
C1_ExceedsPageByAtMostOneUlp ==
    Placed => /\ ExLeq(pdf.place.finalWidth,
                       ExAdd(pdf.page.width, Ulp(pdf.page.width)))
              /\ ExLeq(pdf.place.finalHeight,
                       ExAdd(pdf.page.height, Ulp(pdf.page.height)))

\* a placement whose height is above the page height (by that one ulp)
C1_Witness ==
    /\ Placed
    /\ pdf.promise = "fulfilled"
    /\ ExLess(pdf.page.height, pdf.place.finalHeight)
    /\ ExLess(pdf.place.finalWidth, pdf.page.width)

\* the two quotients the ratio is chosen from
WidthQuotient == FDivInt(pdf.page.width, pdf.img.width)
HeightQuotient == FDivInt(pdf.page.height, pdf.img.height)

\* ratio is the smaller of the two quotients and both axes are scaled by it
RatioIsMin ==
    /\ pdf.place.ratio \in {WidthQuotient, HeightQuotient}
    /\ ExLeq(pdf.place.ratio, WidthQuotient)
    /\ ExLeq(pdf.place.ratio, HeightQuotient)
    /\ pdf.place.finalWidth = FMulInt(pdf.img.width, pdf.place.ratio)
    /\ pdf.place.finalHeight = FMulInt(pdf.img.height, pdf.place.ratio)

\* finalWidth * imgHeight - finalHeight * imgWidth, exactly
AspectDefect ==
    ExSub(ExMulInt(pdf.img.height, pdf.place.finalWidth),
          ExMulInt(pdf.img.width, pdf.place.finalHeight))

\* C2 as stated: ratio = min(pageWidth/imgWidth, pageHeight/imgHeight) is
\* applied to both axes, the aspect ratio is preserved exactly
\* (finalWidth * imgHeight = finalHeight * imgWidth) and finalWidth =
\* pageWidth or finalHeight = pageHeight.
C2_ExactAspectAndFit ==
    Placed => /\ RatioIsMin
              /\ AspectDefect = ExZero
              /\ \/ ExEq(pdf.place.finalWidth, pdf.page.width)
                 \/ ExEq(pdf.place.finalHeight, pdf.page.height)

\* C2 amended: ratio is the smaller of the two computed quotients and is
\* applied to both axes; the aspect ratio is preserved up to the rounding
\* of the two products, |finalWidth * imgHeight - finalHeight * imgWidth|
\* <= 2^-52 * imgWidth * imgHeight * ratio; and finalWidth is within one
\* ulp of pageWidth or finalHeight is within one ulp of pageHeight.
C2_AspectAndFitUpToRounding ==
    Placed => /\ RatioIsMin
              /\ ExLeq(ExScale(ExAbs(AspectDefect), 52),
                       ExMulInt(pdf.img.width * pdf.img.height, pdf.place.ratio))
              /\ \/ ExLeq(ExAbs(ExSub(pdf.place.finalWidth, pdf.page.width)),
                          Ulp(pdf.page.width))
                 \/ ExLeq(ExAbs(ExSub(pdf.place.finalHeight, pdf.page.height)),
                          Ulp(pdf.page.height))

\* a placement that touches neither page dimension exactly and whose
\* aspect ratio is off by a rounding error
C2_Witness ==
    /\ Placed
    /\ pdf.promise = "fulfilled"
    /\ AspectDefect # ExZero
    /\ ~ExEq(pdf.place.finalWidth, pdf.page.width)
    /\ ~ExEq(pdf.place.finalHeight, pdf.page.height)

\* (pageExtent - finalExtent) / 2, exactly
ExactCentre(pageExtent, finalExtent) == ExScale(ExSub(pageExtent, finalExtent), -1)

\* the margin on the far side of an axis: pageExtent - (offset + finalExtent)
FarMargin(pageExtent, offset, finalExtent) ==
    ExSub(pageExtent, ExAdd(offset, finalExtent))

\* C3 as stated: x = (pageWidth - finalWidth)/2 and y = (pageHeight -
\* finalHeight)/2, hence x >= 0, y >= 0 and the margins on opposite sides
\* are equal.
C3_CentredExactly ==
    Placed => /\ pdf.place.x = ExactCentre(pdf.page.width, pdf.place.finalWidth)
              /\ pdf.place.y = ExactCentre(pdf.page.height, pdf.place.finalHeight)
              /\ ExLeq(ExZero, pdf.place.x)
              /\ ExLeq(ExZero, pdf.place.y)
              /\ ExEq(pdf.place.x,
                      FarMargin(pdf.page.width, pdf.place.x, pdf.place.finalWidth))
              /\ ExEq(pdf.place.y,
                      FarMargin(pdf.page.height, pdf.place.y, pdf.place.finalHeight))

\* an offset is centred up to rounding: it is the binary64 result of
\* (pageExtent - finalExtent)/2, it is not below -ulp(pageExtent)/2, and
\* the two opposite margins differ by at most ulp(pageExtent)/2
CentredUpToRounding(pageExtent, offset, finalExtent) ==
    /\ offset = FHalf(FSub(pageExtent, finalExtent))
    /\ ExLeq(ExNeg(ExScale(Ulp(pageExtent), -1)), offset)
    /\ ExLeq(ExAbs(ExSub(offset, FarMargin(pageExtent, offset, finalExtent))),
             ExScale(Ulp(pageExtent), -1))

\* C3 amended: x and y are the binary64 results of (pageWidth -
\* finalWidth)/2 and (pageHeight - finalHeight)/2; x >= -ulp(pageWidth)/2
\* and y >= -ulp(pageHeight)/2 (an offset can be negative by that rounding
\* error), and the margins on opposite sides are equal up to half an ulp
\* of the page dimension.
C3_CentredUpToRounding ==
    Placed => /\ CentredUpToRounding(pdf.page.width, pdf.place.x, pdf.place.finalWidth)
              /\ CentredUpToRounding(pdf.page.height, pdf.place.y, pdf.place.finalHeight)

\* a placement with a negative y offset and a positive x offset
C3_Witness ==
    /\ Placed
    /\ pdf.promise = "fulfilled"
    /\ ExSign(pdf.place.y) < 0
    /\ ExSign(pdf.place.x) > 0

(***************************************************************************)
(* The re-encoder (C4 - C7).                                               *)
(***************************************************************************)
\* onload ran with a 2d context: the canvas was made, painted and handed
\* to the encoder
Painted == conv.pc \in {"encoding", "done"} /\ conv.toBlobs = 1

Settled(call) == call.promise \in {"fulfilled", "rejected"}

\* C4: for JPEG the whole canvas is filled with opaque white before the
\* image is drawn: every canvas pixel is opaque, it is the source pixel
\* composited onto white, so a fully transparent source pixel is opaque
\* white and an opaque one keeps its colour; for PNG and WEBP nothing is
\* painted before the draw: every canvas pixel has the source's alpha and
\* is the source pixel.
C4_WhiteBackgroundForJpegOnly ==
    Painted =>
        /\ DOMAIN conv.canvas.data = DOMAIN conv.img.data
        /\ \A p \in DOMAIN conv.img.data :
              LET src == conv.img.data[p]
                  out == conv.canvas.data[p]
              IN  IF conv.format = "image/jpeg"
                  THEN /\ out.a = 255
                       /\ out = SourceOver(src, OpaqueWhite)
                       /\ src.a = 0 => out = OpaqueWhite
                       /\ src.a = 255 => out = src
                  ELSE /\ out.a = src.a
                       /\ out = src

\* a JPEG call that resolved for an image with a fully transparent and an
\* opaque pixel
C4_Witness ==
    /\ conv.pc = "done"
    /\ conv.promise = "fulfilled"
    /\ conv.format = "image/jpeg"
    /\ \E p \in DOMAIN conv.img.data : conv.img.data[p].a = 0
    /\ \E p \in DOMAIN conv.img.data : conv.img.data[p].a = 255

\* C5: for every format the encoded surface has exactly the decoded
\* input's width and height, so has the output, and the output of
\* re-encoding an output at the same format has that output's width and
\* height.
C5_OutputHasInputDimensions ==
    /\ Painted =>
          /\ conv.canvas.width = conv.img.width
          /\ conv.canvas.height = conv.img.height
          /\ conv.img = Decode(conv.file)
    /\ conv.promise = "fulfilled" =>
          /\ Decode(conv.value).width = Decode(conv.file).width
          /\ Decode(conv.value).height = Decode(conv.file).height
          /\ conv.reencodes.kind = "blob" =>
                /\ conv.value.type = conv.reencodes.type
                /\ Decode(conv.value).width = Decode(conv.reencodes).width
                /\ Decode(conv.value).height = Decode(conv.reencodes).height

\* an output re-encoded at the same format, of an image that is not square
C5_Witness ==
    /\ conv.pc = "done"
    /\ conv.promise = "fulfilled"
    /\ conv.reencodes.kind = "blob"
    /\ Decode(conv.value).width # Decode(conv.value).height

\* the blob is a whole encoding of the canvas at the requested format
CompleteBlob(value) ==
    /\ value.kind = "blob"
    /\ value.type = conv.format
    /\ value.image.kind = "raster"
    /\ DOMAIN value.image.data = Grid(conv.canvas.width, conv.canvas.height)

\* C6: a call settles exactly once (resolve or reject is called once, when
\* the call is done, and not before), with a complete non-null blob or
\* with an error; a decode failure rejects, an encoder that yields no blob
\* rejects, and nothing is tried twice (one load, at most one toBlob).
C6_SettlesOnceBlobOrError ==
    /\ conv.settles <= 1
    /\ conv.loads <= 1
    /\ conv.toBlobs <= 1
    /\ conv.pc \in {"loading", "encoding"} =>
          conv.promise = "pending" /\ conv.settles = 0
    /\ conv.pc = "done" =>
          /\ conv.settles = 1
          /\ \/ conv.promise = "fulfilled" /\ CompleteBlob(conv.value)
             \/ conv.promise = "rejected" /\ conv.value.kind \in {"error", "event"}
          /\ ~Decodes(conv.file) => conv.promise = "rejected"
          /\ conv.blob.kind = "null" => conv.promise = "rejected"

\* a call whose encoder yielded no blob
C6_Witness ==
    /\ conv.pc = "done"
    /\ conv.blob.kind = "null"
    /\ conv.promise = "rejected"
    /\ conv.settles = 1

\* C7: once a call of convertImage or of convertImageToPDF has settled,
\* the object URL it created has been revoked.
C7_UrlRevokedOnEveryExit ==
    /\ Settled(conv) => conv.url = "revoked"
    /\ Settled(pdf) => pdf.url = "revoked"

(***************************************************************************)
(* The classifier and the App's error handling (C8 - C10).                 *)
(***************************************************************************)
Classes == {"image", "video", "audio", "document", "unknown"}

\* the class C8 gives a declared type
ClassOf(type) ==
    IF StartsWith(type, ImagePrefix) THEN "image"
    ELSE IF StartsWith(type, VideoPrefix) THEN "video"
    ELSE IF StartsWith(type, AudioPrefix) THEN "audio"
    ELSE IF type = ApplicationPdf THEN "document"
    ELSE "unknown"

\* C8: getMediaType maps a declared type to exactly one of the five
\* classes: prefix 'image/' to image, 'video/' to video, 'audio/' to audio,
\* exactly 'application/pdf' to document and every other string to
\* unknown; document is distinct from unknown.
C8_ClassifiesByDeclaredType ==
    last.op = "processFile" =>
        /\ last.type = getMediaType(last.file)
        /\ last.type \in Classes
        /\ last.type = ClassOf(last.file.type)
        /\ last.file.type = ApplicationPdf => last.type # "unknown"

\* C9: a file classified as unknown is never made the active file, no
\* conversion is ever started for it, and in the state that results from
\* its rejection the "unsupported type" message is rendered.
C9_UnknownRejectedAndShown ==
    /\ activeFile.kind # "null" =>
          getMediaType(activeFile.file) # Member(MediaType, "UNKNOWN")
    /\ \A i \in DOMAIN calls :
          getMediaType(calls[i].file.file) # Member(MediaType, "UNKNOWN")
    /\ (last.op = "processFile" /\ last.type = Member(MediaType, "UNKNOWN")) =>
          /\ errorMsg = UnsupportedMessage
          /\ ErrorBannerShown

\* C10: when a conversion or analysis started by handleProcess has failed,
\* the status is ERROR (no longer PROCESSING), a non-empty message is
\* recorded and rendered, the file and the format the call was started
\* with are still in place, and the process button is enabled again.
C10_FailureCaughtAndRetryable ==
    last.op = "failed" =>
        /\ status = ConversionStatus.ERROR
        /\ errorMsg # ""
        /\ ErrorBannerShown
        /\ activeFile = last.file
        /\ selectedFormat = last.option.value
        /\ ProcessButtonEnabled

(***************************************************************************)
(* The output filename (C11).                                              *)
(***************************************************************************)
\* the name with only its final dot-segment replaced by the extension; a
\* name without a dot has no segment to replace and keeps its whole basename
Renamed(name, extension) ==
    LET parts == Split(name)
    IN  IF Len(parts) = 1
        THEN name \o <<".">> \o extension
        ELSE Join(SliceButLast(parts)) \o <<".">> \o extension

\* C11 as stated: for every file name and every conversion option the
\* filename of the result handleProcess produces is the input's basename
\* unchanged with only the final dot-segment replaced by the option's
\* extension.
C11_FilenameKeepsBasename ==
    (last.op = "succeeded" /\ last.option.type = "conversion")
        => result.filename = Renamed(last.file.file.name, last.option.extension)

(***************************************************************************)
(* The document convertImageToPDF builds (C12, C13).                       *)
(***************************************************************************)
\* C12: every successful convertImageToPDF call produces a document with
\* exactly one page and exactly one embedded image, the image placed on the
\* computed rectangle; no document exists before the image has loaded, a
\* call whose addImage threw holds a document without image and has not
\* resolved, and a rejected call created no document: the promise is
\* fulfilled only with the image in the document.
C12_OnePageOneImage ==
    /\ pdf.promise = "fulfilled" =>
          /\ pdf.pc = "done"
          /\ pdf.doc.pages = 1
          /\ Len(pdf.doc.images) = 1
          /\ pdf.doc.images[1].x = pdf.place.x
          /\ pdf.doc.images[1].y = pdf.place.y
          /\ pdf.doc.images[1].width = pdf.place.finalWidth
          /\ pdf.doc.images[1].height = pdf.place.finalHeight
    /\ pdf.pc = "threw" =>
          /\ pdf.promise = "pending"
          /\ pdf.doc.pages = 1
          /\ pdf.doc.images = <<>>
    /\ (pdf.pc \in {"idle", "loading"} \/ pdf.promise = "rejected") =>
          pdf.doc = None

\* a call that resolved with the 2 x 1 image embedded
C12_Witness ==
    /\ pdf.promise = "fulfilled"
    /\ pdf.img = [width |-> 2, height |-> 1]
    /\ Len(pdf.doc.images) = 1

\* the largest and the smallest exponent of a normal binary64 number
MaxExponent == 1023
MinExponent == -1022

\* v is a binary64 number: not NaN, not an infinity; zero, or 53 significant
\* bits with the exponent of the leading bit in range
IsFinite(v) ==
    /\ IsFloat(v)
    /\ v.s # 0 => (v.e + (Precision - 1)) \in MinExponent..MaxExponent

\* C13: for the 1 x 1 image, and for every image with positive width and
\* height, the placement rectangle is non-degenerate: ratio, finalWidth and
\* finalHeight are finite and strictly positive, x and y are finite.
C13_PlacementNonDegenerate ==
    Placed =>
        /\ pdf.img.width > 0 /\ pdf.img.height > 0
        /\ \A v \in {pdf.place.widthRatio, pdf.place.heightRatio,
                     pdf.place.ratio, pdf.place.finalWidth,
                     pdf.place.finalHeight} :
              IsFinite(v) /\ ExSign(v) > 0
        /\ IsFinite(pdf.place.x)
        /\ IsFinite(pdf.place.y)

\* the placement of the 1 x 1 image: the page width wide and high, at the
\* left edge of the page
C13_Witness ==
    /\ Placed
    /\ pdf.img = [width |-> 1, height |-> 1]
    /\ pdf.place.ratio = pdf.page.width
    /\ pdf.place.finalWidth = pdf.page.width
    /\ pdf.place.finalHeight = pdf.page.width
    /\ pdf.place.x = ExZero
    /\ ExSign(pdf.place.y) > 0

(***************************************************************************)
(* The order of the steps of one convertImage call (C14).                  *)
(***************************************************************************)
\* the place of the first step of that name in the call's steps, 0 if the
\* call has not gone through it
StepAt(name) ==
    IF \E k \in DOMAIN conv.steps : conv.steps[k] = name
    THEN CHOOSE k \in DOMAIN conv.steps :
            /\ conv.steps[k] = name
            /\ \A j \in 1..(k - 1) : conv.steps[j] # name
    ELSE 0

Did(name) == StepAt(name) > 0

\* the call went through step a, and before it went through step b
Before(a, b) == Did(a) /\ StepAt(a) < StepAt(b)

\* img.src is set and neither onload nor onerror has fired
DecodePending == Did("src") /\ ~Did("load") /\ ~Did("error")

\* toBlob was called and its callback has not fired
EncodePending == Did("toBlob") /\ ~Did("blob")

\* C14: within one convertImage call the steps happen in the order decode,
\* transform, encode, result: the image is drawn only after it has loaded,
\* toBlob is called only after the image was drawn, the promise is resolved
\* only after the toBlob callback has fired, no step happens twice, and
\* the decode and the encode are never pending at the same time.
C14_DecodeDrawEncodeResolve ==
    /\ Did("load") => Before("src", "load")
    /\ Did("draw") => Before("load", "draw")
    /\ Did("toBlob") => Before("draw", "toBlob")
    /\ Did("blob") => Before("toBlob", "blob")
    /\ Did("resolve") => Before("blob", "resolve")
    /\ conv.promise = "fulfilled" <=> Did("resolve")
    /\ \A j, k \in DOMAIN conv.steps : conv.steps[j] = conv.steps[k] => j = k
    /\ ~(DecodePending /\ EncodePending)
    /\ conv.pc = "loading" <=> DecodePending
    /\ conv.pc = "encoding" <=> EncodePending

\* a call that went through all the steps and resolved
C14_Witness ==
    /\ conv.promise = "fulfilled"
    /\ conv.steps = <<"src", "load", "draw", "toBlob", "blob", "resolve", "revoke">>

(***************************************************************************)
(* Calls whose file was cleared or replaced (C15).                         *)
(***************************************************************************)
\* call i was started for a file that is no longer the active one
Abandoned(i) == i \in DOMAIN calls /\ calls[i].file # activeFile

\* this step is the completion of call i: its await is over and the rest of
\* handleProcess (or its catch block) has run
CompletionOf(i) == i \in DOMAIN calls /\ calls' = Remove(calls, i)

\* this step is a callback of call i that leaves it in flight (an interval
\* tick, a handler of the convertImage it awaits)
CallbackOf(i) ==
    /\ i \in DOMAIN calls
    /\ Len(calls') = Len(calls)
    /\ calls'[i] # calls[i]

\* C15 as stated: the result of an abandoned call is discarded: no
\* completion and no callback of a handleProcess call whose file has since
\* been cleared or replaced changes status, result, progress or error
\* message; and whenever a successful result is shown while a file is
\* active, it was produced from that file.
C15_AbandonedCallDiscarded ==
    [][/\ \A i \in 1..MaxCalls :
             (Abandoned(i) /\ (CompletionOf(i) \/ CallbackOf(i)))
                 => UNCHANGED <<status, result, progress, errorMsg>>
       /\ (last'.op = "succeeded" /\ activeFile'.kind # "null")
             => last'.file = activeFile']_vars

(***************************************************************************)
(* Every call comes to its end (C16).  What a call awaits (the image load, *)
(* the toBlob callback, the service call, a timer) eventually settles: the *)
(* step that settles the await of the call at place i is taken if it stays *)
(* possible.                                                               *)
(***************************************************************************)
\* what call i awaits settles
Settles(i) ==
    \/ \E response \in Responses : AnalysisSettles(i, response)
    \/ AnalysisTimeout(i)
    \/ \E hasCtx \in BOOLEAN : ImageLoadedIn(i, hasCtx)
    \/ ImageFailedIn(i)
    \/ \E encoded \in BOOLEAN : ToBlobDoneIn(i, encoded)
    \/ ProgressTimeout(i)

FairSpec == Spec /\ \A i \in 1..MaxCalls : WF_vars(Settles(i))

\* the click on the process button would go past the first return of
\* handleProcess
ClickStartsCall ==
    /\ ProcessButtonEnabled
    /\ activeFile.kind # "null"
    /\ selectedFormat # ""

\* C16: the option of the selected format is always found, so a
\* handleProcess call that has set the status to PROCESSING never takes the
\* early return and there is a call in flight while the status is
\* PROCESSING; whenever calls are in flight the oldest of them comes to its
\* end, successful or failed (so every call does, each in its turn), and a
\* status PROCESSING is always followed by SUCCESS or ERROR.
C16_ProcessingEnds ==
    /\ [](ClickStartsCall =>
            FindOption(getOptions(activeFile), selectedFormat).kind = "option")
    /\ [](status = ConversionStatus.PROCESSING => calls # <<>>)
    /\ (calls # <<>>) ~> (last.op \in {"succeeded", "failed"} /\ last.place = 1)
    /\ (status = ConversionStatus.PROCESSING)
          ~> (status \in {ConversionStatus.SUCCESS, ConversionStatus.ERROR})

\* a call that had set the status to PROCESSING has ended in its catch
\* block and nothing is in flight
C16_Witness ==
    /\ last.op = "failed"
    /\ status = ConversionStatus.ERROR
    /\ activeFile = last.file
    /\ calls = <<>>

(***************************************************************************)
(* Status against result, calls in flight, progress (C17 - C19).           *)
(***************************************************************************)
\* C17 as stated: in every reachable state the result is non-null exactly
\* when the status is SUCCESS: with SUCCESS a result with url and filename
\* is there, with IDLE, PROCESSING or ERROR the result is null.
C17_ResultIffSuccess ==
    /\ status = ConversionStatus.SUCCESS =>
          /\ result.kind = "result"
          /\ result.url.kind = "url"
          /\ Len(result.filename) > 0
    /\ status # ConversionStatus.SUCCESS => result = NullResult

\* C18 as stated: at most one handleProcess call is in flight at any time;
\* a call starts only when no earlier call is still awaiting its
\* conversion or analysis.
C18_OneCallInFlight == Len(calls) <= 1

\* call i is in its simulateProgress
Simulating(i) == i \in DOMAIN calls /\ calls[i].await = "simulateProgress"

\* this step is an interval tick of the simulateProgress of call i
TickOf(i) ==
    /\ Simulating(i)
    /\ Len(calls') = Len(calls)
    /\ calls'[i].ticks = calls[i].ticks + 1

\* this step is the timeout of the simulateProgress of call i
TimeoutOf(i) == Simulating(i) /\ calls' = Remove(calls, i)

\* this step is a click that starts a simulateProgress
StartsSimulation ==
    /\ Len(calls') = Len(calls) + 1
    /\ calls'[Len(calls')].await = "simulateProgress"

\* C19 as stated: during simulateProgress the progress starts at 0, an
\* interval tick never decreases it and never takes it above the cap of
\* 95, it is at most 95 as long as the final timeout has not fired, and
\* the timeout sets it to exactly 100 (after which no tick of that
\* simulation is left to change it).
C19_ProgressCappedThenSnaps ==
    [][/\ StartsSimulation => progress' = 0
       /\ \A i \in 1..MaxCalls :
             /\ TickOf(i) => (progress <= progress' /\ progress' <= 95)
             /\ TimeoutOf(i) => progress' = 100
             /\ Simulating(i)' => progress' <= 95]_vars

(***************************************************************************)
(* The simulated conversions (C20).                                        *)
(***************************************************************************)
\* the last step was the successful end of a conversion of a file that is
\* not an image: a video, an audio file or a document
SimulatedConversionEnded ==
    /\ last.op = "succeeded"
    /\ last.option.type = "conversion"
    /\ last.file.type # Member(MediaType, "IMAGE")

\* C20: for every local conversion option of a video, audio or document
\* file handleProcess performs no transcoding: the result's url refers to
\* the original file itself, bytes and type unchanged, and the status
\* becomes SUCCESS only when the simulated delay is over, with the progress
\* at 100; while the simulation is still awaited the call has produced no
\* result.
C20_SimulatedReturnsOriginal ==
    /\ SimulatedConversionEnded =>
          /\ result.kind = "result"
          /\ result.url = ObjectURL(last.file.file)
          /\ result.url.of = last.file.previewUrl.of
          /\ status = ConversionStatus.SUCCESS
          /\ progress = 100
    /\ \A i \in DOMAIN calls :
          (calls[i].file.type # Member(MediaType, "IMAGE")
              /\ calls[i].option.type = "conversion")
             => calls[i].await = "simulateProgress"

\* the video 'v.m.mp4' "converted" to MP3: the result is the file itself
C20_Witness ==
    /\ SimulatedConversionEnded
    /\ last.file.type = Member(MediaType, "VIDEO")
    /\ last.option.value = "mp3"
    /\ result.url.of = last.file.file
    /\ progress = 100

=============================================================================
